---- MODULE Spec2Model ----
(***************************************************************************)
(* Event capacity and registration lifecycle of the off-road backend:      *)
(* the Event and Registration models and the /api/registrations and        *)
(* /api/events route handlers, over a document store whose single-document *)
(* operations are atomic.  A handler is a sequence of store calls; between *)
(* two awaited calls other requests may run.                               *)
(***************************************************************************)
EXTENDS Integers, Sequences, FiniteSets, TLC

---------------------------------------------------------------------------
(* Bounds of the model *)

\* largest maxParticipants an admin enters
MaxCap == 2
\* the clock runs from 0 to MaxTime ticks
MaxTime == 4
\* largest views or likes counter of a gallery image
MaxCount == 2
\* login or register calls the AuthProvider awaits at once, at most
MaxCalls == 2

\* 1000 * 60 * 60 * 24 ms, the length of a day, in clock ticks
TicksPerDay == 2
\* "Cancellation not allowed within 3 days of the event"
CancelDays == 3

---------------------------------------------------------------------------
(* Data *)

Null == [null |-> TRUE]

\* two ordinary (non-admin) user accounts, and the admin
UserIds == {1, 2}
AdminId == 0
Accounts == UserIds \cup {AdminId}
Role(a) == IF a = AdminId THEN "admin" ELSE "user"

\* the store hands out one event id
EventIds == {1}
\* request slots: two requests may be in flight at once
Slots == {1, 2}

EventStatuses == {"active", "cancelled", "completed", "draft"}
RegStatuses == {"pending", "confirmed", "cancelled", "completed"}
PayStatuses == {"pending", "paid", "refunded"}

Prices == {0, 1}
Caps == 1..MaxCap
\* dates an admin enters: an event four days after the clock's start, its
\* registration deadline at tick 1
EventDates == {4 * TicksPerDay}
Deadlines == {1}

\* new Event({...}) with the schema defaults
NewEvent(date, deadline, price, cap) ==
  [status |-> "active", maxParticipants |-> cap, currentParticipants |-> 0,
   price |-> price, date |-> date, registrationDeadline |-> deadline]

\* paymentDate has no default: a new registration has none
NoDate == -1

\* new Registration({event, user, participantDetails, paymentAmount}) with
\* the schema defaults
NewRegistration(e, u, amount) ==
  [event |-> e, user |-> u, registrationStatus |-> "pending",
   paymentStatus |-> "pending", paymentAmount |-> amount,
   paymentDate |-> NoDate]

---------------------------------------------------------------------------
(* Event model: virtuals and methods *)

isFull(ev) == ev.currentParticipants >= ev.maxParticipants

availableSpots(ev) == ev.maxParticipants - ev.currentParticipants

isRegistrationOpen_NoFull(ev, t) ==
  t <= ev.registrationDeadline /\ ev.status = "active"

isRegistrationOpen(ev, t) ==
  t <= ev.registrationDeadline /\ ev.status = "active" /\ ~isFull(ev)

---------------------------------------------------------------------------
(* Store operations *)

\* The store keeps events as a sequence indexed by id: ids are handed out in
\* order and never reused, a deleted event leaves Null behind.
\* Event.findById / Registration.findById
FindEvent(ev, e) == IF e \in DOMAIN ev THEN ev[e] ELSE Null
FindReg(rg, id) == IF id \in DOMAIN rg THEN rg[id] ELSE Null

\* Registration.findOne({event, user})
FindOneReg_Never(rg, e, u) == FALSE

FindOneReg(rg, e, u) ==
  \E i \in DOMAIN rg : rg[i].event = e /\ rg[i].user = u

\* the unique compound index {event: 1, user: 1}: an insert of a second
\* document with the same pair is refused
UniqueIndexAdmits_Off(rg, e, u) == TRUE

UniqueIndexAdmits(rg, e, u) ==
  ~\E i \in DOMAIN rg : rg[i].event = e /\ rg[i].user = u

\* Event.findByIdAndUpdate(e, {$inc: {currentParticipants: d}}): no document,
\* no change; $inc runs no validator
IncParticipants(ev, e, d) ==
  IF e \in DOMAIN ev /\ ev[e] # Null
  THEN [ev EXCEPT ![e].currentParticipants = @ + d]
  ELSE ev

---------------------------------------------------------------------------
(* Requests.  A request is a record: what was asked (op, user, target, arg),
   where its handler stands (pc), the handler's local variables (event, reg,
   oldStatus) and, once it has answered, the response (code, msg, and body:
   the ids of the documents a read returns).  Of a
   loaded document the record keeps the fields the handler reads after the
   load. *)

Idle ==
  [op |-> "none", pc |-> "idle", user |-> AdminId, target |-> 0, arg |-> "",
   event |-> Null, reg |-> Null, oldStatus |-> "", code |-> 0, msg |-> "",
   body |-> <<>>]

Request(op, u, target, arg) ==
  [Idle EXCEPT !.op = op, !.pc = "start", !.user = u, !.target = target,
               !.arg = arg]

\* res.status(code).json({message}): the handler returns; the request keeps
\* the status it found the registration in, its other locals are gone
Respond(r, code, msg) ==
  [r EXCEPT !.pc = "done", !.code = code, !.msg = msg,
            !.event = Null, !.reg = Null]

\* what a handler step yields: the stores and the request after it
Out(ev, rg, r) == [ev |-> ev, rg |-> rg, r |-> r]

---------------------------------------------------------------------------
(* POST /api/registrations *)

\* registration.save(): the insert, refused by the unique index
SaveNewRegistration(rg, doc) ==
  IF UniqueIndexAdmits(rg, doc.event, doc.user)
  THEN [ok |-> TRUE, rg |-> Append(rg, doc)]
  ELSE [ok |-> FALSE, rg |-> rg]

\* the document the handler builds: paymentAmount is the price of the event
\* it loaded
\* of the event it loaded, the handler later reads the price
EventRead(event) == [price |-> event.price]

\* of the registration it loaded, the handler later reads and sets these
RegRead(doc) ==
  [event |-> doc.event, registrationStatus |-> doc.registrationStatus]

RegistrationDoc_NoSnapshot(r) == NewRegistration(r.target, r.user, 0)

RegistrationDoc(r) == NewRegistration(r.target, r.user, r.event.price)

\* what becomes of whatsappService.sendEventRegistrationNotification: the
\* message is sent ({success: true}); sendMessage catches a failed post or
\* finds no credentials ({success: false}); or building the message throws.
\* It is the arg of a Register request.
Notifications == {"sent", "failed", "threw"}

\* try { await whatsappService.sendEventRegistrationNotification(...) }
\* catch (whatsappError) { console.error(...) }, then res.status(201): the
\* handler reads neither the result nor the error
AfterNotification_Rethrow(r) ==
  IF r.arg = "threw"
  THEN Respond(r, 500, "Server error during registration")
  ELSE Respond(r, 201, "Registration submitted successfully")

AfterNotification(r) == Respond(r, 201, "Registration submitted successfully")

RegisterStep(ev, rg, t, r) ==
  CASE r.pc = "start" ->
         \* Event.findById, then the synchronous checks up to the next await
         LET event == FindEvent(ev, r.target) IN
         IF event = Null
         THEN Out(ev, rg, Respond(r, 404, "Event not found"))
         ELSE IF ~isRegistrationOpen(event, t)
         THEN Out(ev, rg, Respond(r, 400, "Registration is closed for this event"))
         ELSE Out(ev, rg, [r EXCEPT !.pc = "findExisting",
                                    !.event = EventRead(event)])
    [] r.pc = "findExisting" ->
         IF FindOneReg(rg, r.target, r.user)
         THEN Out(ev, rg, Respond(r, 400, "You have already registered for this event"))
         ELSE Out(ev, rg, [r EXCEPT !.pc = "save", !.reg = RegistrationDoc(r)])
    [] r.pc = "save" ->
         LET saved == SaveNewRegistration(rg, r.reg) IN
         IF saved.ok
         THEN Out(ev, saved.rg, [r EXCEPT !.pc = "inc"])
         ELSE Out(ev, rg, Respond(r, 500, "Server error during registration"))
    [] r.pc = "inc" ->
         Out(IncParticipants(ev, r.target, 1), rg, [r EXCEPT !.pc = "respond"])
    [] r.pc = "respond" ->
         \* populate, the notification, the response
         Out(ev, rg, AfterNotification(r))

---------------------------------------------------------------------------
(* Saving a loaded document: registration.save() writes the paths that were
   modified since the load, and nothing when none was *)

SaveStatus_Remove(rg, id, loaded, status) ==
  IF id \in DOMAIN rg
  THEN [i \in 1..(Len(rg) - 1) |-> IF i < id THEN rg[i] ELSE rg[i + 1]]
  ELSE rg

SaveStatus(rg, id, loaded, status) ==
  IF status # loaded /\ id \in DOMAIN rg
  THEN [rg EXCEPT ![id].registrationStatus = status]
  ELSE rg

\* adminAuth
IsAdmin_Anyone(u) == TRUE

IsAdmin(u) == Role(u) = "admin"

---------------------------------------------------------------------------
(* DELETE /api/registrations/:id *)

\* Math.ceil((event.date - new Date()) / (1000 * 60 * 60 * 24))
DaysDiff(date, t) == -((t - date) \div TicksPerDay)

\* if (daysDiff < 3) the cancellation is refused
CancellationAllowed(date, t) == ~(DaysDiff(date, t) < CancelDays)

\* registration.user.toString() !== req.user._id.toString(), for a non-admin
MayCancel_Anyone(u, doc) == TRUE

MayCancel(u, doc) == Role(u) = "admin" \/ doc.user = u

\* if (registration.registrationStatus === "confirmed"), read from the
\* document after its status was set to "cancelled"
CancelFreesSeat_Always(r) == TRUE

CancelFreesSeat(r) == r.reg.registrationStatus = "confirmed"

CancelStep(ev, rg, t, r) ==
  CASE r.pc = "start" ->
         LET registration == FindReg(rg, r.target) IN
         IF registration = Null
         THEN Out(ev, rg, Respond(r, 404, "Registration not found"))
         ELSE IF ~MayCancel(r.user, registration)
         THEN Out(ev, rg, Respond(r, 403, "Access denied"))
         ELSE Out(ev, rg, [r EXCEPT !.pc = "findEvent",
                                    !.reg = RegRead(registration),
                                    !.oldStatus = registration.registrationStatus])
    [] r.pc = "findEvent" ->
         LET event == FindEvent(ev, r.reg.event) IN
         IF event # Null /\ ~CancellationAllowed(event.date, t)
         THEN Out(ev, rg, Respond(r, 400,
                    "Cancellation not allowed within 3 days of the event"))
         ELSE Out(ev, rg, [r EXCEPT !.pc = "save",
                                    !.reg.registrationStatus = "cancelled"])
    [] r.pc = "save" ->
         LET rg2 == SaveStatus(rg, r.target, r.oldStatus, r.reg.registrationStatus) IN
         IF CancelFreesSeat(r)
         THEN Out(ev, rg2, [r EXCEPT !.pc = "dec"])
         ELSE Out(ev, rg2, Respond(r, 200, "Registration cancelled successfully"))
    [] r.pc = "dec" ->
         Out(IncParticipants(ev, r.reg.event, -1), rg,
             Respond(r, 200, "Registration cancelled successfully"))

---------------------------------------------------------------------------
(* PATCH /api/registrations/:id/status *)

\* else if (oldStatus === "confirmed" && status !== "confirmed")
LeavesConfirmed_AnyOld(old, status) == status # "confirmed"

LeavesConfirmed(old, status) == old = "confirmed" /\ status # "confirmed"

ChangeStatusStep(ev, rg, t, r) ==
  CASE r.pc = "start" ->
         IF ~IsAdmin(r.user)
         THEN Out(ev, rg, Respond(r, 403, "Access denied. Admin privileges required."))
         ELSE IF r.arg \notin RegStatuses
         THEN Out(ev, rg, Respond(r, 400, "Validation errors"))
         ELSE LET registration == FindReg(rg, r.target) IN
         IF registration = Null
         THEN Out(ev, rg, Respond(r, 404, "Registration not found"))
         ELSE Out(ev, rg, [r EXCEPT !.pc = "save",
                                    !.oldStatus = registration.registrationStatus,
                                    !.reg = [RegRead(registration) EXCEPT
                                               !.registrationStatus = r.arg]])
    [] r.pc = "save" ->
         LET rg2 == SaveStatus(rg, r.target, r.oldStatus, r.arg) IN
         IF r.oldStatus # r.arg
         THEN Out(ev, rg2, [r EXCEPT !.pc = "findEvent"])
         ELSE Out(ev, rg2, Respond(r, 200, "Registration status updated successfully"))
    [] r.pc = "findEvent" ->
         LET event == FindEvent(ev, r.reg.event) IN
         IF event # Null /\ ~(r.arg = "confirmed" /\ r.oldStatus # "confirmed")
                         /\ LeavesConfirmed(r.oldStatus, r.arg)
         THEN Out(ev, rg, [r EXCEPT !.pc = "dec"])
         ELSE Out(ev, rg, Respond(r, 200, "Registration status updated successfully"))
    [] r.pc = "dec" ->
         Out(IncParticipants(ev, r.reg.event, -1), rg,
             Respond(r, 200, "Registration status updated successfully"))

---------------------------------------------------------------------------
(* PATCH /api/registrations/:id/payment *)

\* arg is [paymentStatus, undefinedKey]: the status the admin sends, and what
\* the installed Mongoose does with a key of an update whose value is
\* undefined: leave it out of the update (6 and later) or write null (5)
UndefinedKeys == {"omitted", "null"}

\* paymentStatus === "paid" ? new Date() : undefined
SetsPaymentDate_Always(paymentStatus) == TRUE

SetsPaymentDate(paymentStatus) == paymentStatus = "paid"

\* Registration.findByIdAndUpdate(id, {paymentStatus, paymentDate})
UpdatePaymentDoc_Reprice(doc, b, t) ==
  [doc EXCEPT !.paymentStatus = b.paymentStatus, !.paymentAmount = 0]

UpdatePaymentDoc(doc, b, t) ==
  [doc EXCEPT !.paymentStatus = b.paymentStatus,
              !.paymentDate = IF SetsPaymentDate(b.paymentStatus) THEN t
                              ELSE IF b.undefinedKey = "omitted" THEN @
                              ELSE NoDate]

UpdatePaymentStep(ev, rg, t, r) ==
  IF ~IsAdmin(r.user)
  THEN Out(ev, rg, Respond(r, 403, "Access denied. Admin privileges required."))
  ELSE IF r.arg.paymentStatus \notin PayStatuses
  THEN Out(ev, rg, Respond(r, 400, "Validation errors"))
  ELSE IF FindReg(rg, r.target) = Null
  THEN Out(ev, rg, Respond(r, 404, "Registration not found"))
  ELSE Out(ev, [rg EXCEPT ![r.target] = UpdatePaymentDoc(@, r.arg, t)],
           Respond(r, 200, "Payment status updated successfully"))

---------------------------------------------------------------------------
(* /api/events, admin only *)

\* POST /api/events: arg is [date, registrationDeadline, price, maxParticipants]
CreateEventStep(ev, rg, t, r) ==
  IF ~IsAdmin(r.user)
  THEN Out(ev, rg, Respond(r, 403, "Access denied. Admin privileges required."))
  ELSE IF r.arg.price < 0 \/ r.arg.maxParticipants < 1
  THEN Out(ev, rg, Respond(r, 400, "Validation errors"))
  ELSE IF r.arg.date <= t
  THEN Out(ev, rg, Respond(r, 400, "Event date must be in the future"))
  ELSE IF r.arg.registrationDeadline >= r.arg.date
  THEN Out(ev, rg, Respond(r, 400, "Registration deadline must be before event date"))
  ELSE Out(Append(ev, NewEvent(r.arg.date, r.arg.registrationDeadline,
                               r.arg.price, r.arg.maxParticipants)),
           rg, Respond(r, 201, "Event created successfully"))

\* the request validators of PUT /api/events/:id; arg is [field, value]
UpdateBodyValid(b) ==
  /\ b.field = "maxParticipants" => b.value >= 1
  /\ b.field = "price" => b.value >= 0

\* runValidators: the schema validators of the paths the update sets
SchemaAdmits(b, t) ==
  /\ b.field = "maxParticipants" => b.value >= 1
  /\ b.field = "price" => b.value >= 0
  /\ b.field = "currentParticipants" => b.value >= 0
  /\ b.field = "date" => b.value > t
  /\ b.field = "status" => b.value \in EventStatuses

ApplyUpdate(event, b) ==
  CASE b.field = "maxParticipants" -> [event EXCEPT !.maxParticipants = b.value]
    [] b.field = "price" -> [event EXCEPT !.price = b.value]
    [] b.field = "currentParticipants" -> [event EXCEPT !.currentParticipants = b.value]
    [] b.field = "date" -> [event EXCEPT !.date = b.value]
    [] b.field = "registrationDeadline" -> [event EXCEPT !.registrationDeadline = b.value]
    [] b.field = "status" -> [event EXCEPT !.status = b.value]

\* Event.findByIdAndUpdate(id, fields, {runValidators: true})
UpdateEventDoc(ev, e, b, t) ==
  IF ~SchemaAdmits(b, t)
  THEN [ok |-> FALSE, ev |-> ev]
  ELSE IF FindEvent(ev, e) = Null
  THEN [ok |-> TRUE, ev |-> ev]
  ELSE [ok |-> TRUE, ev |-> [ev EXCEPT ![e] = ApplyUpdate(@, b)]]

UpdateEventStep(ev, rg, t, r) ==
  CASE r.pc = "start" ->
         IF ~IsAdmin(r.user)
         THEN Out(ev, rg, Respond(r, 403, "Access denied. Admin privileges required."))
         ELSE IF ~UpdateBodyValid(r.arg)
         THEN Out(ev, rg, Respond(r, 400, "Validation errors"))
         ELSE LET event == FindEvent(ev, r.target) IN
         IF event = Null
         THEN Out(ev, rg, Respond(r, 404, "Event not found"))
         ELSE IF r.arg.field \in {"date", "registrationDeadline"}
         THEN LET eventDate == IF r.arg.field = "date"
                               THEN r.arg.value ELSE event.date
                  regDeadline == IF r.arg.field = "registrationDeadline"
                                 THEN r.arg.value ELSE event.registrationDeadline
              IN IF eventDate <= t
                 THEN Out(ev, rg, Respond(r, 400, "Event date must be in the future"))
                 ELSE IF regDeadline >= eventDate
                 THEN Out(ev, rg, Respond(r, 400,
                            "Registration deadline must be before event date"))
                 ELSE Out(ev, rg, [r EXCEPT !.pc = "update"])
         ELSE Out(ev, rg, [r EXCEPT !.pc = "update"])
    [] r.pc = "update" ->
         LET u == UpdateEventDoc(ev, r.target, r.arg, t) IN
         IF u.ok
         THEN Out(u.ev, rg, Respond(r, 200, "Event updated successfully"))
         ELSE Out(ev, rg, Respond(r, 500, "Server error updating event"))

\* PATCH /api/events/:id/status
SetEventStatusStep(ev, rg, t, r) ==
  IF ~IsAdmin(r.user)
  THEN Out(ev, rg, Respond(r, 403, "Access denied. Admin privileges required."))
  ELSE IF r.arg \notin EventStatuses
  THEN Out(ev, rg, Respond(r, 400, "Validation errors"))
  ELSE IF FindEvent(ev, r.target) = Null
  THEN Out(ev, rg, Respond(r, 404, "Event not found"))
  ELSE Out([ev EXCEPT ![r.target].status = r.arg], rg,
           Respond(r, 200, "Event status updated successfully"))

\* if (event.currentParticipants > 0) the event is not deleted
HasParticipants_Never(event) == FALSE

HasParticipants(event) == event.currentParticipants > 0

MsgHasRegistrations ==
  "Cannot delete event with existing registrations. Consider cancelling instead."

\* DELETE /api/events/:id
DeleteEventStep(ev, rg, t, r) ==
  CASE r.pc = "start" ->
         IF ~IsAdmin(r.user)
         THEN Out(ev, rg, Respond(r, 403, "Access denied. Admin privileges required."))
         ELSE LET event == FindEvent(ev, r.target) IN
         IF event = Null
         THEN Out(ev, rg, Respond(r, 404, "Event not found"))
         ELSE IF HasParticipants(event)
         THEN Out(ev, rg, Respond(r, 400, MsgHasRegistrations))
         ELSE Out(ev, rg, [r EXCEPT !.pc = "delete"])
    [] r.pc = "delete" ->
         Out(IF r.target \in DOMAIN ev THEN [ev EXCEPT ![r.target] = Null] ELSE ev,
             rg, Respond(r, 200, "Event deleted successfully"))

---------------------------------------------------------------------------
(* GET /api/registrations and GET /api/registrations/:id *)

\* a query without status or eventId
NoStatus == "none"
NoEvent == 0

\* the filter of Registration.find: a non-admin's filter.user is the caller
Matches(doc, u, q) ==
  /\ Role(u) # "admin" => doc.user = u
  /\ q.status # NoStatus => doc.registrationStatus = q.status
  /\ q.eventId # NoEvent => doc.event = q.eventId

\* .sort({registrationDate: -1}): the latest registration first
RECURSIVE LatestFirst(_)
LatestFirst(ids) ==
  IF ids = {}
  THEN <<>>
  ELSE LET m == CHOOSE i \in ids : \A j \in ids : j <= i
       IN <<m>> \o LatestFirst(ids \ {m})

\* .skip(skip).limit(limit)
SkipLimit(seq, skip, limit) ==
  SubSeq(seq, skip + 1, IF skip + limit < Len(seq) THEN skip + limit ELSE Len(seq))

\* arg is [status, eventId, page, limit]
ListRegistrationsStep(ev, rg, t, r) ==
  LET found == LatestFirst({i \in DOMAIN rg : Matches(rg[i], r.user, r.arg)})
      skip == (r.arg.page - 1) * r.arg.limit
  IN Out(ev, rg, [Respond(r, 200, "") EXCEPT
                    !.body = SkipLimit(found, skip, r.arg.limit)])

\* req.user.role !== "admin" && registration.user._id !== req.user._id
MayView_Anyone(u, doc) == TRUE

MayView(u, doc) == Role(u) = "admin" \/ doc.user = u

GetRegistrationStep(ev, rg, t, r) ==
  LET registration == FindReg(rg, r.target) IN
  IF registration = Null
  THEN Out(ev, rg, Respond(r, 404, "Registration not found"))
  ELSE IF ~MayView(r.user, registration)
  THEN Out(ev, rg, Respond(r, 403, "Access denied"))
  ELSE Out(ev, rg, [Respond(r, 200, "") EXCEPT !.body = <<r.target>>])

---------------------------------------------------------------------------
(* GET /api/events/:id *)

\* a caller without a token, and req.user where no middleware has set it
NoUser == -1

\* router.get("/:id", async (req, res) => ...): the route has no auth
\* middleware, and auth is the only code that sets req.user
PublicReqUser(u) == NoUser

\* if (!req.user || req.user.role !== "admin")
SeesOnlyActive(reqUser) == reqUser = NoUser \/ Role(reqUser) # "admin"

GetEventStep(ev, rg, t, r) ==
  LET event == FindEvent(ev, r.target) IN
  IF event = Null
  THEN Out(ev, rg, Respond(r, 404, "Event not found"))
  ELSE IF SeesOnlyActive(PublicReqUser(r.user)) /\ event.status # "active"
  THEN Out(ev, rg, Respond(r, 404, "Event not found"))
  ELSE Out(ev, rg, [Respond(r, 200, "") EXCEPT !.body = <<r.target>>])

---------------------------------------------------------------------------
(* One step of a handler, and a handler run from its request to its response *)

Step(ev, rg, t, r) ==
  CASE r.op = "Register" -> RegisterStep(ev, rg, t, r)
    [] r.op = "Cancel" -> CancelStep(ev, rg, t, r)
    [] r.op = "ChangeStatus" -> ChangeStatusStep(ev, rg, t, r)
    [] r.op = "UpdatePayment" -> UpdatePaymentStep(ev, rg, t, r)
    [] r.op = "CreateEvent" -> CreateEventStep(ev, rg, t, r)
    [] r.op = "UpdateEvent" -> UpdateEventStep(ev, rg, t, r)
    [] r.op = "SetEventStatus" -> SetEventStatusStep(ev, rg, t, r)
    [] r.op = "DeleteEvent" -> DeleteEventStep(ev, rg, t, r)
    [] r.op = "ListRegistrations" -> ListRegistrationsStep(ev, rg, t, r)
    [] r.op = "GetRegistration" -> GetRegistrationStep(ev, rg, t, r)
    [] r.op = "GetEvent" -> GetEventStep(ev, rg, t, r)

RECURSIVE Run(_, _, _, _)
Run(ev, rg, t, r) ==
  IF r.pc = "done"
  THEN Out(ev, rg, r)
  ELSE LET o == Step(ev, rg, t, r) IN Run(o.ev, o.rg, t, o.r)

---------------------------------------------------------------------------
(* The AuthProvider of the client: the session it holds (user, token,
   isLoading), the cookies of the browser, and the calls to /api/auth it
   awaits.  The state setters of one run of an effect or of one continuation
   take effect together. *)

\* generateToken(user._id): the token /api/auth signs for an account
GenerateToken(a) == [userId |-> a]
\* the user object /api/auth answers with
UserOf(a) == [id |-> a, role |-> Role(a)]

\* the text of a cookie that is absent or empty: falsy either way
NoText == <<>>
\* JSON.stringify(newUser)
Stringify(u) == <<"{", u, "}">>
\* a text cut short
Truncated(s) == SubSeq(s, 1, Len(s) - 1)
\* JSON.parse(storedUser) throws unless the text is whole
Parses(s) == Len(s) = 3 /\ s[1] = "{" /\ s[3] = "}"
Parse(s) == s[2]

\* the texts the "user" cookie of a browser may hold
UserCookies ==
  {NoText} \cup {Stringify(UserOf(a)) : a \in Accounts}
           \cup {Truncated(Stringify(UserOf(a))) : a \in Accounts}
\* the values the "token" cookie of a browser may hold
TokenCookies == {Null} \cup {GenerateToken(a) : a \in Accounts}

\* useState(null), useState(null), useState(true), before the effect has run
NewProvider(cookieToken, cookieUser) ==
  [mounted |-> FALSE, user |-> Null, token |-> Null, isLoading |-> TRUE,
   cookieToken |-> cookieToken, cookieUser |-> cookieUser, calls |-> {}]

\* a browser without cookies, its provider not mounted
NoSession == NewProvider(Null, NoText)

\* useEffect(() => {...}, []): load the session from the cookies.  setToken
\* has run when JSON.parse throws, and the catch block removes the cookies
\* and sets no state.
LoadFromCookies(a) ==
  LET found == a.cookieToken # Null /\ a.cookieUser # NoText
      threw == found /\ ~Parses(a.cookieUser)
  IN  [a EXCEPT !.mounted = TRUE,
                !.token = IF found THEN a.cookieToken ELSE @,
                !.user = IF found /\ ~threw THEN Parse(a.cookieUser) ELSE @,
                !.cookieToken = IF threw THEN Null ELSE @,
                !.cookieUser = IF threw THEN NoText ELSE @,
                !.isLoading = FALSE]

\* login and register up to the awaited api.post
StartCall(a, op, account) ==
  [a EXCEPT !.isLoading = TRUE,
            !.calls = @ \cup {[op |-> op, account |-> account]}]

\* login and register from the answer of api.post on: ok is a 2xx answer, and
\* any other answer makes api.post throw
FinishCall(a, c, ok) ==
  [a EXCEPT !.token = IF ok THEN GenerateToken(c.account) ELSE @,
            !.user = IF ok THEN UserOf(c.account) ELSE @,
            !.cookieToken = IF ok THEN GenerateToken(c.account) ELSE @,
            !.cookieUser = IF ok THEN Stringify(UserOf(c.account)) ELSE @,
            !.isLoading = FALSE,
            !.calls = @ \ {c}]

\* logout
ClearSession(a) ==
  [a EXCEPT !.user = Null, !.token = Null,
            !.cookieToken = Null, !.cookieUser = NoText]

---------------------------------------------------------------------------
(* State *)

VARIABLES
  events,   \* the Event collection: event id -> document, Null once deleted
  regs,     \* the Registration collection: registration id -> document
  now,      \* the clock, new Date()
  reqs,     \* request slot -> the request it serves or last answered
  gallery,  \* the Gallery collection: image id -> document
  auth      \* the AuthProvider of one browser: its state and its cookies

vars == <<events, regs, now, reqs, gallery, auth>>

Init ==
  /\ events = <<>>
  /\ regs = <<>>
  /\ now = 0
  /\ gallery = <<>>
  /\ auth = NoSession
  /\ reqs = [s \in Slots |-> Idle]

\* inputs of the requests
EventTargets == EventIds
RegTargets == 1..(Cardinality(UserIds) * Cardinality(EventIds))
CreateBodies ==
  [date : EventDates, registrationDeadline : Deadlines,
   price : Prices, maxParticipants : Caps]
UpdateBodies ==
  [field : {"maxParticipants"}, value : Caps]
    \cup [field : {"price"}, value : Prices]
    \cup [field : {"currentParticipants"}, value : 0..MaxCap]

\* requests that may lower a counter are no longer started once the counter
\* of the registration's event is below zero
DebtAllows(id) ==
  id \in DOMAIN regs /\ FindEvent(events, regs[id].event) # Null
    => events[regs[id].event].currentParticipants >= 0

\* the admin has created a free event with MaxCap seats
InitRead ==
  /\ events = <<NewEvent(4 * TicksPerDay, 1, 0, MaxCap)>>
  /\ regs = <<>>
  /\ now = 0
  /\ gallery = <<>>
  /\ auth = NoSession
  /\ reqs = [s \in Slots |-> Idle]

---------------------------------------------------------------------------
(* Requests served one at a time: the whole handler is one action, and slot 1
   keeps the request last answered *)

\* slot s serves no request
Free(s) == reqs[s].pc \in {"idle", "done"}

Handle(req) ==
  LET o == Run(events, regs, now, req) IN
  /\ events' = o.ev
  /\ regs' = o.rg
  /\ reqs' = [reqs EXCEPT ![1] = o.r]
  /\ now' = now
  /\ gallery' = gallery
  /\ auth' = auth

Tick ==
  /\ now < MaxTime
  /\ now' = now + 1
  /\ UNCHANGED <<events, regs, reqs, gallery, auth>>

CreateEvent ==
  \E b \in CreateBodies :
    /\ Len(events) < Cardinality(EventIds)
    /\ Handle(Request("CreateEvent", AdminId, 0, b))

UpdateEvent ==
  \E e \in EventTargets, b \in UpdateBodies :
    /\ e \in DOMAIN events
    /\ Handle(Request("UpdateEvent", AdminId, e, b))

SetEventStatus ==
  \E e \in EventTargets, st \in EventStatuses :
    /\ e \in DOMAIN events
    /\ Handle(Request("SetEventStatus", AdminId, e, st))

DeleteEvent ==
  \E e \in EventTargets :
    /\ e \in DOMAIN events
    /\ Handle(Request("DeleteEvent", AdminId, e, ""))

Register ==
  \E u \in UserIds, e \in EventTargets :
    /\ Free(1)
    /\ Handle(Request("Register", u, e, "sent"))

ChangeStatus ==
  \E id \in RegTargets, st \in RegStatuses :
    /\ DebtAllows(id)
    /\ Handle(Request("ChangeStatus", AdminId, id, st))

Cancel ==
  \E u \in Accounts, id \in RegTargets :
    /\ DebtAllows(id)
    /\ Handle(Request("Cancel", u, id, ""))

\* events are created, edited and deleted, and users register
Next ==
  \/ Tick
  \/ CreateEvent
  \/ UpdateEvent
  \/ SetEventStatus
  \/ DeleteEvent
  \/ Register

Spec == Init /\ [][Next]_vars

\* users register, and registrations are confirmed, completed and cancelled
NextCancel ==
  \/ Tick
  \/ CreateEvent
  \/ Register
  \/ ChangeStatus
  \/ Cancel

SpecCancel == Init /\ [][NextCancel]_vars

UpdatePayment ==
  \E id \in RegTargets, ps \in PayStatuses, k \in UndefinedKeys :
    Handle(Request("UpdatePayment", AdminId, id,
                   [paymentStatus |-> ps, undefinedKey |-> k]))

\* users register and the admin records payments
NextPayment ==
  \/ Tick
  \/ CreateEvent
  \/ Register
  \/ UpdatePayment

SpecPayment == Init /\ [][NextPayment]_vars

\* a Register whose notification is sent, fails or throws
RegisterNotified ==
  \E u \in UserIds, e \in EventTargets, n \in Notifications :
    /\ Free(1)
    /\ Handle(Request("Register", u, e, n))

\* users register and the notification may fail
NextNotify ==
  \/ Tick
  \/ CreateEvent
  \/ SetEventStatus
  \/ RegisterNotified

SpecNotify == Init /\ [][NextNotify]_vars

RegQueries ==
  [status : RegStatuses \cup {NoStatus}, eventId : EventIds \cup {NoEvent},
   page : {1, 2}, limit : {1, 10}]

ListRegistrations ==
  \E u \in Accounts, q \in RegQueries :
    /\ regs # <<>>
    /\ Handle(Request("ListRegistrations", u, 0, q))

GetRegistration ==
  \E u \in Accounts, id \in RegTargets :
    Handle(Request("GetRegistration", u, id, ""))

\* users register, the admin sets statuses, and users and the admin read
NextRead ==
  \/ Register
  \/ ChangeStatus
  \/ ListRegistrations
  \/ GetRegistration

SpecRead == InitRead /\ [][NextRead]_vars

\* PATCH /api/registrations/:id/status and /payment sent by any account
ChangeStatusAs ==
  \E u \in Accounts, id \in RegTargets, st \in RegStatuses :
    /\ DebtAllows(id)
    /\ Handle(Request("ChangeStatus", u, id, st))

UpdatePaymentAs ==
  \E u \in Accounts, id \in RegTargets, ps \in PayStatuses :
    Handle(Request("UpdatePayment", u, id,
                   [paymentStatus |-> ps, undefinedKey |-> "omitted"]))

\* users register, and users and the admin send the admin's requests
NextAdminOnly ==
  \/ Register
  \/ ChangeStatusAs
  \/ UpdatePaymentAs

SpecAdminOnly == InitRead /\ [][NextAdminOnly]_vars

\* the admin has created an event with MaxCap seats at price 1
InitPriced ==
  /\ events = <<NewEvent(4 * TicksPerDay, 1, 1, MaxCap)>>
  /\ regs = <<>>
  /\ now = 0
  /\ gallery = <<>>
  /\ auth = NoSession
  /\ reqs = [s \in Slots |-> Idle]

\* PUT /api/events/:id with a new price
EditPrice ==
  \E e \in EventTargets, p \in Prices :
    /\ e \in DOMAIN events
    /\ Handle(Request("UpdateEvent", AdminId, e,
                      [field |-> "price", value |-> p]))

\* the admin confirms or cancels a registration
ConfirmOrCancel ==
  \E id \in RegTargets, st \in {"confirmed", "cancelled"} :
    /\ DebtAllows(id)
    /\ Handle(Request("ChangeStatus", AdminId, id, st))

\* the admin records a payment or a refund
PayOrRefund ==
  \E id \in RegTargets, ps \in {"paid", "refunded"} :
    Handle(Request("UpdatePayment", AdminId, id,
                   [paymentStatus |-> ps, undefinedKey |-> "omitted"]))

\* users register and cancel while the admin edits the price, sets statuses
\* and records payments
NextSnapshot ==
  \/ EditPrice
  \/ Register
  \/ ConfirmOrCancel
  \/ PayOrRefund
  \/ Cancel

SpecSnapshot == InitPriced /\ [][NextSnapshot]_vars

GetEvent ==
  \E u \in Accounts \cup {NoUser}, e \in EventTargets :
    /\ e \in DOMAIN events
    /\ Handle(Request("GetEvent", u, e, ""))

\* the admin creates events and sets their status, and anyone reads them
NextEventRead ==
  \/ Tick
  \/ CreateEvent
  \/ SetEventStatus
  \/ GetEvent

SpecEventRead == Init /\ [][NextEventRead]_vars

\* users register, registrations are confirmed, completed and cancelled, and
\* the admin deletes events
NextLifecycle ==
  \/ CreateEvent
  \/ Register
  \/ ChangeStatus
  \/ Cancel
  \/ DeleteEvent

SpecLifecycle == Init /\ [][NextLifecycle]_vars

---------------------------------------------------------------------------
(* /api/gallery: the admin uploads, features and soft-deletes images; anyone
   lists, reads and likes them *)

\* the store hands out two image ids
ImageIds == {1, 2}

\* new Gallery({...}) with the schema defaults
NewImage == [isActive |-> TRUE, views |-> 0, likes |-> 0, featured |-> FALSE]

\* Gallery.findById
FindImage(gl, id) == IF id \in DOMAIN gl THEN gl[id] ELSE Null

\* what a gallery handler yields: the collection and the request after it
GalleryOut(gl, r) == [gl |-> gl, r |-> r]

\* POST /api/gallery
UploadImageStep(gl, r) ==
  IF ~IsAdmin(r.user)
  THEN GalleryOut(gl, Respond(r, 403, "Access denied. Admin privileges required."))
  ELSE GalleryOut(Append(gl, NewImage),
                  Respond(r, 201, "Image uploaded successfully"))

\* PATCH /api/gallery/:id/featured: arg is the flag
SetFeaturedStep(gl, r) ==
  IF ~IsAdmin(r.user)
  THEN GalleryOut(gl, Respond(r, 403, "Access denied. Admin privileges required."))
  ELSE IF FindImage(gl, r.target) = Null
  THEN GalleryOut(gl, Respond(r, 404, "Image not found"))
  ELSE GalleryOut([gl EXCEPT ![r.target].featured = r.arg],
                  Respond(r, 200, "Featured status updated successfully"))

\* DELETE /api/gallery/:id: a soft delete
DeleteImageStep(gl, r) ==
  IF ~IsAdmin(r.user)
  THEN GalleryOut(gl, Respond(r, 403, "Access denied. Admin privileges required."))
  ELSE IF FindImage(gl, r.target) = Null
  THEN GalleryOut(gl, Respond(r, 404, "Image not found"))
  ELSE GalleryOut([gl EXCEPT ![r.target].isActive = FALSE],
                  Respond(r, 200, "Image deleted successfully"))

\* GET /api/gallery: arg is the featured filter, "any" without one
ListImagesStep(gl, r) ==
  LET found == {i \in DOMAIN gl :
                  /\ gl[i].isActive
                  /\ r.arg # "any" => gl[i].featured = (r.arg = "true")}
  IN GalleryOut(gl, [Respond(r, 200, "") EXCEPT !.body = LatestFirst(found)])

\* GET /api/gallery/:id
GetImageStep(gl, r) ==
  LET image == FindImage(gl, r.target) IN
  IF image = Null \/ ~image.isActive
  THEN GalleryOut(gl, Respond(r, 404, "Image not found"))
  ELSE GalleryOut([gl EXCEPT ![r.target].views = @ + 1],
                  [Respond(r, 200, "") EXCEPT !.body = <<r.target>>])

\* Gallery.findByIdAndUpdate(id, {$inc: {likes: 1}}, {new: true})
IncLikes(gl, id) ==
  IF id \in DOMAIN gl THEN [gl EXCEPT ![id].likes = @ + 1] ELSE gl

\* POST /api/gallery/:id/like: the update comes first, the test of the
\* updated document after it
LikeImageStep(gl, r) ==
  LET gl2 == IncLikes(gl, r.target)
      image == FindImage(gl2, r.target)
  IN IF image = Null \/ ~image.isActive
     THEN GalleryOut(gl2, Respond(r, 404, "Image not found"))
     ELSE GalleryOut(gl2, Respond(r, 200, "Image liked successfully"))

GalleryStep(gl, r) ==
  CASE r.op = "UploadImage" -> UploadImageStep(gl, r)
    [] r.op = "SetFeatured" -> SetFeaturedStep(gl, r)
    [] r.op = "DeleteImage" -> DeleteImageStep(gl, r)
    [] r.op = "ListImages" -> ListImagesStep(gl, r)
    [] r.op = "GetImage" -> GetImageStep(gl, r)
    [] r.op = "LikeImage" -> LikeImageStep(gl, r)

HandleGallery(req) ==
  LET o == GalleryStep(gallery, req) IN
  /\ gallery' = o.gl
  /\ auth' = auth
  /\ reqs' = [reqs EXCEPT ![1] = o.r]
  /\ UNCHANGED <<events, regs, now>>

UploadImage ==
  /\ Len(gallery) < Cardinality(ImageIds)
  /\ HandleGallery(Request("UploadImage", AdminId, 0, ""))

SetFeatured ==
  \E id \in ImageIds, f \in BOOLEAN :
    /\ id \in DOMAIN gallery
    /\ HandleGallery(Request("SetFeatured", AdminId, id, f))

DeleteImage ==
  \E id \in ImageIds :
    /\ id \in DOMAIN gallery
    /\ HandleGallery(Request("DeleteImage", AdminId, id, ""))

ListImages ==
  \E u \in Accounts \cup {NoUser}, f \in {"any", "true", "false"} :
    /\ gallery # <<>>
    /\ HandleGallery(Request("ListImages", u, 0, f))

GetImage ==
  \E u \in Accounts \cup {NoUser}, id \in ImageIds :
    /\ id \in DOMAIN gallery => gallery[id].views < MaxCount
    /\ HandleGallery(Request("GetImage", u, id, ""))

LikeImage ==
  \E u \in Accounts \cup {NoUser}, id \in ImageIds :
    /\ id \in DOMAIN gallery => gallery[id].likes < MaxCount
    /\ HandleGallery(Request("LikeImage", u, id, ""))

NextGallery ==
  \/ UploadImage
  \/ SetFeatured
  \/ DeleteImage
  \/ ListImages
  \/ GetImage
  \/ LikeImage

SpecGallery == Init /\ [][NextGallery]_vars

---------------------------------------------------------------------------
(* The AuthProvider in a browser *)

\* a browser opens the application with whatever cookies it holds
InitAuth ==
  /\ events = <<>>
  /\ regs = <<>>
  /\ now = 0
  /\ gallery = <<>>
  /\ reqs = [s \in Slots |-> Idle]
  /\ auth \in {NewProvider(t, u) : t \in TokenCookies, u \in UserCookies}

Mount ==
  /\ ~auth.mounted
  /\ auth' = LoadFromCookies(auth)
  /\ UNCHANGED <<events, regs, now, reqs, gallery>>

login ==
  \E a \in Accounts :
    /\ auth.mounted
    /\ Cardinality(auth.calls) < MaxCalls
    /\ auth' = StartCall(auth, "login", a)
    /\ UNCHANGED <<events, regs, now, reqs, gallery>>

register ==
  \E a \in Accounts :
    /\ auth.mounted
    /\ Cardinality(auth.calls) < MaxCalls
    /\ auth' = StartCall(auth, "register", a)
    /\ UNCHANGED <<events, regs, now, reqs, gallery>>

\* /api/auth answers a call
Answer ==
  \E c \in auth.calls, ok \in BOOLEAN :
    /\ auth' = FinishCall(auth, c, ok)
    /\ UNCHANGED <<events, regs, now, reqs, gallery>>

logout ==
  /\ auth.mounted
  /\ auth' = ClearSession(auth)
  /\ UNCHANGED <<events, regs, now, reqs, gallery>>

NextAuth == Mount \/ login \/ register \/ Answer \/ logout

SpecAuth == InitAuth /\ [][NextAuth]_vars

---------------------------------------------------------------------------
(* Requests served concurrently: a handler runs up to its next awaited store
   call, and the handlers in the other slots may run in between *)

\* the handler of the request in slot s runs to its next await
Advance(s, req) ==
  LET o == Step(events, regs, now, req) IN
  /\ events' = o.ev
  /\ regs' = o.rg
  /\ reqs' = [reqs EXCEPT ![s] = o.r]
  /\ now' = now
  /\ gallery' = gallery
  /\ auth' = auth

\* a request arrives at a free slot and its handler starts
Accept(s, req) == Free(s) /\ Advance(s, req)

Proceed(s) == ~Free(s) /\ Advance(s, reqs[s])

AcceptRegister ==
  \E s \in Slots, u \in UserIds, e \in EventTargets :
    Accept(s, Request("Register", u, e, "sent"))

\* of the concurrent requests, an admin's ChangeStatus confirms
AcceptChangeStatus ==
  \E s \in Slots, id \in RegTargets, st \in {"confirmed"} :
    /\ DebtAllows(id)
    /\ Accept(s, Request("ChangeStatus", AdminId, id, st))

AcceptCancel ==
  \E s \in Slots, id \in RegTargets :
    /\ DebtAllows(id)
    /\ id \in DOMAIN regs
    /\ Accept(s, Request("Cancel", regs[id].user, id, ""))

Serve == \E s \in Slots : Proceed(s)

\* an admin has created one event
InitConc ==
  /\ \E b \in CreateBodies :
       events = <<NewEvent(b.date, b.registrationDeadline, b.price,
                           b.maxParticipants)>>
  /\ regs = <<>>
  /\ now = 0
  /\ gallery = <<>>
  /\ auth = NoSession
  /\ reqs = [s \in Slots |-> Idle]

NextConc ==
  \/ AcceptRegister
  \/ AcceptChangeStatus
  \/ AcceptCancel
  \/ Serve

SpecConc == InitConc /\ [][NextConc]_vars

---------------------------------------------------------------------------
(* The admin edits the dates of an event, from two sessions at once *)

\* PUT bodies that set the date or the registration deadline
DateBodies ==
  [field : {"date", "registrationDeadline"}, value : 1..(4 * TicksPerDay)]

AcceptUpdateEvent ==
  \E s \in Slots, e \in EventTargets, b \in DateBodies :
    Accept(s, Request("UpdateEvent", AdminId, e, b))

NextEdit ==
  \/ AcceptUpdateEvent
  \/ Serve

SpecEdit == InitRead /\ [][NextEdit]_vars

---------------------------------------------------------------------------
(* A race: every slot holds a Register request for event 1, which is open
   with some seats already taken by earlier registrants *)

\* the accounts of the earlier registrants, who send no request
EarlierUser(i) == Cardinality(UserIds) + i

InitRace ==
  \E b \in CreateBodies, k \in 0..(MaxCap - 1), who \in [Slots -> UserIds] :
    /\ k < b.maxParticipants
    /\ events = <<[NewEvent(b.date, b.registrationDeadline, b.price,
                            b.maxParticipants)
                     EXCEPT !.currentParticipants = k]>>
    /\ regs = [i \in 1..k |-> NewRegistration(1, EarlierUser(i), b.price)]
    /\ now = 0
    /\ gallery = <<>>
    /\ auth = NoSession
    /\ reqs = [s \in Slots |-> Request("Register", who[s], 1, "sent")]

SpecRace == InitRace /\ [][Serve]_vars

---------------------------------------------------------------------------
(* A race on one registration: user 1 holds a confirmed registration for
   event 1, and every slot holds a request that sets its status, a
   ChangeStatus of the admin or a Cancel of the user or the admin *)

StatusRequests ==
  {Request("ChangeStatus", AdminId, 1, st) : st \in RegStatuses}
    \cup {Request("Cancel", u, 1, "") : u \in {1, AdminId}}

InitStatusRace ==
  \E b \in CreateBodies, q \in [Slots -> StatusRequests] :
    /\ events = <<[NewEvent(b.date, b.registrationDeadline, b.price,
                            b.maxParticipants)
                     EXCEPT !.currentParticipants = 1]>>
    /\ regs = <<[NewRegistration(1, 1, b.price)
                   EXCEPT !.registrationStatus = "confirmed"]>>
    /\ now = 0
    /\ gallery = <<>>
    /\ auth = NoSession
    /\ reqs = q

SpecStatusRace == InitStatusRace /\ [][Serve]_vars

---------------------------------------------------------------------------
(* Store failures: an awaited store call of a handler may throw; the
   handler's catch block answers 500 and the handler does nothing more *)

CatchMessage(op) ==
  CASE op = "Register" -> "Server error during registration"
    [] op = "ChangeStatus" -> "Server error updating registration status"
    [] op = "Cancel" -> "Server error cancelling registration"

Catch(r) == Respond(r, 500, CatchMessage(r.op))

\* the call the handler in slot s waits for throws
StoreFails ==
  \E s \in Slots :
    /\ ~Free(s)
    /\ reqs' = [reqs EXCEPT ![s] = Catch(reqs[s])]
    /\ UNCHANGED <<events, regs, now, gallery, auth>>

\* users register while store calls may fail
NextFault ==
  \/ AcceptRegister
  \/ Serve
  \/ StoreFails

SpecFault == InitConc /\ [][NextFault]_vars

---------------------------------------------------------------------------
(* Reading a step of the one-at-a-time specifications *)

Stored(e) == e \in DOMAIN events /\ events[e] # Null

\* the request in slot 1 after the step is the one in it before
SameRequest ==
  /\ reqs[1].op = reqs'[1].op
  /\ reqs[1].user = reqs'[1].user
  /\ reqs[1].target = reqs'[1].target
  /\ reqs[1].arg = reqs'[1].arg
  /\ reqs[1].code = reqs'[1].code
  /\ reqs[1].msg = reqs'[1].msg

\* the step is the handling of a request op
Answered(op) ==
  /\ reqs'[1].op = op
  /\ reqs'[1].pc = "done"
  /\ ~(SameRequest /\ events' = events /\ regs' = regs /\ gallery' = gallery)

MsgClosed == "Registration is closed for this event"
MsgDuplicate == "You have already registered for this event"

---------------------------------------------------------------------------
(* Claims *)

\* C1: every stored event has 0 <= currentParticipants <= maxParticipants
C1_CounterWithinCapacity ==
  \A e \in DOMAIN events :
    events[e] # Null =>
      /\ 0 <= events[e].currentParticipants
      /\ events[e].currentParticipants <= events[e].maxParticipants

\* C5: isRegistrationOpen(event, now) is true exactly when
\* now <= registrationDeadline, status = "active" and
\* currentParticipants < maxParticipants
C5_OpenExactlyWhen ==
  \A e \in DOMAIN events :
    events[e] # Null =>
      (isRegistrationOpen(events[e], now)
         <=> /\ now <= events[e].registrationDeadline
             /\ events[e].status = "active"
             /\ events[e].currentParticipants < events[e].maxParticipants)

\* an active event before its deadline is full, and a Register was refused
C5_Witness ==
  /\ Stored(1)
  /\ events[1].status = "active"
  /\ now <= events[1].registrationDeadline
  /\ events[1].currentParticipants = events[1].maxParticipants
  /\ reqs[1].op = "Register" /\ reqs[1].msg = MsgClosed

\* C6: a successful Register adds one pending, unpaid Registration whose
\* paymentAmount is the event's price and adds 1 to that event's counter;
\* nothing else changes
C6_RegisterEffect ==
  [][\A u \in UserIds, e \in EventTargets :
       (/\ Answered("Register")
        /\ reqs'[1].user = u /\ reqs'[1].target = e
        /\ reqs'[1].code = 201)
       => /\ Stored(e)
          /\ regs' = Append(regs,
               [event |-> e, user |-> u, registrationStatus |-> "pending",
                paymentStatus |-> "pending", paymentAmount |-> events[e].price,
                paymentDate |-> NoDate])
          /\ events' = [events EXCEPT ![e].currentParticipants = @ + 1]]_vars

\* a second user has registered for an event that costs something
C6_Witness ==
  /\ reqs[1].op = "Register" /\ reqs[1].code = 201
  /\ Len(regs) = 2
  /\ regs[2].user = reqs[1].user
  /\ regs[2].paymentAmount > 0

\* C7: Register answers NotFound for a missing event, else "closed" when
\* isRegistrationOpen is false, else "already registered" for an existing
\* (event, user) pair; a failed Register changes neither store
C7_RegisterFailures ==
  [][\A u \in UserIds, e \in EventTargets :
       (/\ Answered("Register")
        /\ reqs'[1].user = u /\ reqs'[1].target = e)
       => /\ ~Stored(e) => reqs'[1].code = 404
          /\ (Stored(e)
                /\ ~(/\ now <= events[e].registrationDeadline
                     /\ events[e].status = "active"
                     /\ events[e].currentParticipants < events[e].maxParticipants))
               => reqs'[1].code = 400 /\ reqs'[1].msg = MsgClosed
          /\ (Stored(e)
                /\ now <= events[e].registrationDeadline
                /\ events[e].status = "active"
                /\ events[e].currentParticipants < events[e].maxParticipants
                /\ \E i \in DOMAIN regs : regs[i].event = e /\ regs[i].user = u)
               => reqs'[1].code = 400 /\ reqs'[1].msg = MsgDuplicate
          /\ reqs'[1].code # 201 => regs' = regs /\ events' = events]_vars

\* maxParticipants = 1, user A holds the seat, user B was refused
C7_Witness ==
  /\ Stored(1)
  /\ events[1].maxParticipants = 1 /\ events[1].currentParticipants = 1
  /\ events[1].status = "active" /\ now <= events[1].registrationDeadline
  /\ Len(regs) = 1
  /\ reqs[1].op = "Register" /\ reqs[1].user # regs[1].user
  /\ reqs[1].code = 400 /\ reqs[1].msg = MsgClosed

\* the registration a Cancel or ChangeStatus in slot 1 is about, and its event
Target == reqs'[1].target
TargetEvent == regs[Target].event

\* C8: a successful Cancel of a registration that was confirmed takes 1 off
\* the event's counter
C8_CancelConfirmedFreesSeat ==
  [][(/\ Answered("Cancel")
      /\ reqs'[1].code = 200
      /\ regs[Target].registrationStatus = "confirmed"
      /\ Stored(TargetEvent))
     => events'[TargetEvent].currentParticipants
          = events[TargetEvent].currentParticipants - 1]_vars

\* C9: a successful Cancel of a registration that was not confirmed leaves
\* every counter as it was, and no Cancel lowers a counter by more than 1
C9_CancelKeepsCounter ==
  [][Answered("Cancel")
     => /\ (reqs'[1].code = 200
              /\ regs[Target].registrationStatus # "confirmed")
             => events' = events
        /\ \A e \in DOMAIN events :
             Stored(e) =>
               /\ events'[e] # Null
               /\ events'[e].currentParticipants
                    >= events[e].currentParticipants - 1]_vars

\* a pending registration was cancelled and its seat is still counted
C9_Witness ==
  /\ reqs[1].op = "Cancel" /\ reqs[1].code = 200
  /\ reqs[1].oldStatus = "pending"
  /\ regs[reqs[1].target].registrationStatus = "cancelled"
  /\ Stored(regs[reqs[1].target].event)
  /\ events[regs[reqs[1].target].event].currentParticipants = 1

\* C10: Cancel by the owner or an admin succeeds when event.date - now is at
\* least 3 days and is refused, changing nothing, when it is less
C10_CancelWindow ==
  [][(/\ Answered("Cancel")
      /\ Target \in DOMAIN regs
      /\ Role(reqs'[1].user) = "admin" \/ regs[Target].user = reqs'[1].user
      /\ Stored(TargetEvent))
     => IF events[TargetEvent].date - now >= CancelDays * TicksPerDay
        THEN reqs'[1].code = 200
        ELSE /\ reqs'[1].code = 400
             /\ regs' = regs
             /\ events' = events]_vars

---------------------------------------------------------------------------
(* Claims about concurrent requests *)

AllAnswered == \A s \in Slots : reqs[s].pc = "done"
Succeeded == {s \in Slots : reqs[s].code = 201}
\* seats event 1 had left when the race began
EarlierRegs == {i \in DOMAIN regs : regs[i].user \notin UserIds}
SeatsAtStart == events[1].maxParticipants - Cardinality(EarlierRegs)

\* C2: of the concurrent Register requests of different users for an event
\* with one seat left, exactly one succeeds and the others are refused as
\* closed
C2_LastSeatGoesToOne ==
  (/\ AllAnswered
   /\ \A s, t \in Slots : s # t => reqs[s].user # reqs[t].user
   /\ SeatsAtStart = 1)
  => /\ Cardinality(Succeeded) = 1
     /\ \A s \in Slots \ Succeeded :
          reqs[s].code = 400 /\ reqs[s].msg = MsgClosed

\* C3: no two Registration documents have the same event and user
C3_OneRegistrationPerPair ==
  \A i, j \in DOMAIN regs :
    (regs[i].event = regs[j].event /\ regs[i].user = regs[j].user) => i = j

\* a user's registration is cancelled, and that user's second Register, past
\* the handler's own check, was refused by the store
C3_Witness ==
  \E s \in Slots, i \in DOMAIN regs :
    /\ reqs[s].op = "Register" /\ reqs[s].code = 500
    /\ regs[i].user = reqs[s].user /\ regs[i].event = reqs[s].target
    /\ regs[i].registrationStatus = "cancelled"

\* C4: of the concurrent Register requests of one user for an open event,
\* one creates the Registration and adds 1 to the counter, the others change
\* nothing
C4_SameUserRegistersOnce ==
  (/\ AllAnswered
   /\ \A s, t \in Slots : reqs[s].user = reqs[t].user)
  => /\ Cardinality(Succeeded) = 1
     /\ Len(regs) = Cardinality(EarlierRegs) + 1
     /\ regs[Len(regs)].user = reqs[1].user
     /\ events[1].currentParticipants = Cardinality(EarlierRegs) + 1

\* both requests of the user passed the handler's check; the store refused
\* the second insert
C4_Witness ==
  /\ AllAnswered
  /\ \A s, t \in Slots : reqs[s].user = reqs[t].user
  /\ \E s \in Slots : reqs[s].code = 500

---------------------------------------------------------------------------
(* Claims about the status of a registration *)

\* the moves of registrationStatus the specification allows
StatusMoves ==
  {<<"pending", "confirmed">>, <<"confirmed", "completed">>,
   <<"pending", "cancelled">>, <<"confirmed", "cancelled">>}

\* C11: the status of a registration changes only along pending -> confirmed
\* -> completed, or to cancelled from pending or confirmed
C11_StatusMoves ==
  [][\A i \in DOMAIN regs :
       regs'[i].registrationStatus # regs[i].registrationStatus
         => <<regs[i].registrationStatus, regs'[i].registrationStatus>>
              \in StatusMoves]_vars

\* the larger of two numbers
Max(a, b) == IF a >= b THEN a ELSE b

\* C12: a ChangeStatus that moves a registration out of confirmed takes 1
\* off the event's counter, and leaves a counter of 0 at 0
C12_DecrementFloored ==
  [][(/\ Answered("ChangeStatus")
      /\ reqs'[1].code = 200
      /\ regs[Target].registrationStatus = "confirmed"
      /\ reqs'[1].arg # "confirmed"
      /\ Stored(TargetEvent))
     => events'[TargetEvent].currentParticipants
          = Max(events[TargetEvent].currentParticipants - 1, 0)]_vars

\* C13: a ChangeStatus of a registration that is not confirmed changes no
\* event, and a ChangeStatus changes a counter only when it moves a
\* registration out of confirmed
C13_OnlyLeavingConfirmedCounts ==
  [][Answered("ChangeStatus")
     => /\ (Target \in DOMAIN regs
              /\ regs[Target].registrationStatus # "confirmed")
             => events' = events
        /\ events' # events
             => /\ Target \in DOMAIN regs
                /\ regs[Target].registrationStatus = "confirmed"
                /\ regs'[Target].registrationStatus # "confirmed"]_vars

\* a pending registration was cancelled by the admin and its seat is still
\* counted
C13_Witness ==
  /\ reqs[1].op = "ChangeStatus" /\ reqs[1].code = 200
  /\ reqs[1].oldStatus = "pending" /\ reqs[1].arg = "cancelled"
  /\ regs[reqs[1].target].registrationStatus = "cancelled"
  /\ Stored(regs[reqs[1].target].event)
  /\ events[regs[reqs[1].target].event].currentParticipants = 1

\* C18: a Cancel by a user who is neither an admin nor the registration's
\* user is answered 403 and changes nothing, however near the event is
C18_CancelForbidden ==
  [][(/\ Answered("Cancel")
      /\ Target \in DOMAIN regs
      /\ Role(reqs'[1].user) # "admin"
      /\ regs[Target].user # reqs'[1].user)
     => /\ reqs'[1].code = 403
        /\ reqs'[1].msg = "Access denied"
        /\ regs' = regs
        /\ events' = events]_vars

\* another user's Cancel was refused as forbidden less than 3 days before
\* the event
C18_Witness ==
  /\ reqs[1].op = "Cancel" /\ reqs[1].code = 403
  /\ reqs[1].target \in DOMAIN regs
  /\ regs[reqs[1].target].user # reqs[1].user
  /\ Stored(regs[reqs[1].target].event)
  /\ events[regs[reqs[1].target].event].date - now < CancelDays * TicksPerDay

\* C14: of the concurrent requests that set the status of one confirmed
\* registration, at most one takes its seat off the event's counter: the
\* counter, 1 for the one registration, never goes below 0
C14_OneDecrementPerRegistration ==
  \A i \in DOMAIN regs :
    events[regs[i].event].currentParticipants >= Len(regs) - 1

\* the registrations stored for event e
RegsOf(e) == {i \in DOMAIN regs : regs[i].event = e}

\* C15: once no Register is in progress, every stored Registration has its
\* seat in the counter of its event: the counter of an event nobody has
\* cancelled or edited is the number of its Registrations
C15_RegisterIsOneUnit ==
  (\A s \in Slots : Free(s))
    => \A e \in DOMAIN events :
         Stored(e) => events[e].currentParticipants = Cardinality(RegsOf(e))

\* C16: DELETE of a stored event with currentParticipants > 0 is refused
\* with the "existing registrations" error and the event stays stored; with
\* currentParticipants = 0 it succeeds and the event is gone
C16_DeleteOnlyWithoutParticipants ==
  [][\A e \in EventTargets :
       (Answered("DeleteEvent") /\ reqs'[1].target = e /\ Stored(e))
       => IF events[e].currentParticipants > 0
          THEN /\ reqs'[1].code = 400
               /\ reqs'[1].msg = MsgHasRegistrations
               /\ events' = events
               /\ regs' = regs
          ELSE /\ reqs'[1].code = 200
               /\ events'[e] = Null
               /\ regs' = regs]_vars

\* the delete of an event whose counter is at its capacity (MaxCap) was
\* refused
C16_Witness ==
  /\ reqs[1].op = "DeleteEvent" /\ reqs[1].code = 400
  /\ Stored(reqs[1].target)
  /\ events[reqs[1].target].currentParticipants = MaxCap

\* C17: the event of every stored Registration is stored
C17_RegisteredEventStays ==
  \A i \in DOMAIN regs : Stored(regs[i].event)

\* C19: a successful UpdatePayment sets the registration's paymentStatus to
\* the value sent and, when that value is "paid", its paymentDate to now;
\* with another value it writes no date, so a registration gets a
\* paymentDate only by being set to "paid"; it changes nothing else of the
\* registration, no other registration and no event
C19_PaymentEffect ==
  [][/\ Answered("UpdatePayment")
        => IF reqs'[1].code = 200
           THEN /\ Target \in DOMAIN regs
                /\ regs'[Target].paymentStatus = reqs'[1].arg.paymentStatus
                /\ reqs'[1].arg.paymentStatus = "paid"
                     => regs'[Target].paymentDate = now
                /\ reqs'[1].arg.paymentStatus # "paid"
                     => regs'[Target].paymentDate
                          \in {regs[Target].paymentDate, NoDate}
                /\ regs' = [regs EXCEPT
                              ![Target].paymentStatus = regs'[Target].paymentStatus,
                              ![Target].paymentDate = regs'[Target].paymentDate]
                /\ events' = events
           ELSE regs' = regs /\ events' = events
     /\ \A i \in DOMAIN regs' :
          /\ i \notin DOMAIN regs => regs'[i].paymentDate = NoDate
          /\ (i \in DOMAIN regs /\ regs[i].paymentDate = NoDate
                /\ regs'[i].paymentDate # NoDate)
               => /\ regs'[i].paymentStatus = "paid"
                  /\ regs'[i].paymentDate = now]_vars

\* a registration made at time 0 was set to paid later: its paymentDate is
\* that later time, its registrationStatus and the counter are as they were
C19_Witness ==
  /\ reqs[1].op = "UpdatePayment" /\ reqs[1].code = 200
  /\ reqs[1].arg.paymentStatus = "paid"
  /\ now > 0
  /\ regs[reqs[1].target].paymentStatus = "paid"
  /\ regs[reqs[1].target].paymentDate = now
  /\ regs[reqs[1].target].registrationStatus = "pending"
  /\ events[regs[reqs[1].target].event].currentParticipants = Len(regs)

\* C20: whatever becomes of the notification, a Register for a stored, open
\* event by a user not yet registered is answered 201, its Registration is
\* stored and the event's counter is 1 higher
C20_NotificationNeverMatters ==
  [][\A u \in UserIds, e \in EventTargets, n \in Notifications :
       (/\ Answered("Register")
        /\ reqs'[1].user = u /\ reqs'[1].target = e /\ reqs'[1].arg = n
        /\ Stored(e)
        /\ isRegistrationOpen(events[e], now)
        /\ ~FindOneReg(regs, e, u))
       => /\ reqs'[1].code = 201
          /\ regs' = Append(regs, NewRegistration(e, u, events[e].price))
          /\ events' = [events EXCEPT ![e].currentParticipants = @ + 1]]_vars

\* the notification of the second registration threw; the registration is
\* stored, counted and answered 201
C20_Witness ==
  /\ reqs[1].op = "Register" /\ reqs[1].arg = "threw"
  /\ reqs[1].code = 201
  /\ Len(regs) = 2
  /\ regs[2].user = reqs[1].user
  /\ Stored(1)
  /\ events[1].currentParticipants = 2

---------------------------------------------------------------------------
(* Claims about what the operations leave alone *)

\* C21: no step removes a Registration: the ids 1..Len(regs) only grow and
\* every registration keeps its event and user; a Cancel changes the
\* Registration collection by setting one registrationStatus to "cancelled"
\* and in no other way
C21_RegistrationsStay ==
  [][/\ Len(regs') >= Len(regs)
     /\ \A i \in DOMAIN regs :
          regs'[i].event = regs[i].event /\ regs'[i].user = regs[i].user
     /\ Answered("Cancel")
          => \/ regs' = regs
             \/ /\ Target \in DOMAIN regs
                /\ regs' = [regs EXCEPT
                              ![Target].registrationStatus = "cancelled"]]_vars

\* the owner cancelled the first of two registrations: both are still
\* stored, the first as cancelled
C21_Witness ==
  /\ reqs[1].op = "Cancel" /\ reqs[1].code = 200
  /\ reqs[1].target = 1
  /\ Len(regs) = 2
  /\ regs[1].user = reqs[1].user
  /\ regs[1].registrationStatus = "cancelled"

---------------------------------------------------------------------------
(* Claims about reads *)

\* the ids in the body of the response in slot 1
BodyIds == {reqs[1].body[k] : k \in DOMAIN reqs[1].body}

\* C22: every registration a non-admin's list returns is the caller's own,
\* whatever the filter; a non-admin's read of another user's registration by
\* id is refused with 403 and returns nothing; an admin's read by id returns
\* the registration, and an admin's unfiltered list of page 1 with limit 10
\* returns every registration
C22_ReadsScopedToCaller ==
  /\ (reqs[1].op = "ListRegistrations" /\ Role(reqs[1].user) # "admin")
       => \A i \in BodyIds : regs[i].user = reqs[1].user
  /\ (reqs[1].op = "GetRegistration" /\ Role(reqs[1].user) # "admin"
        /\ reqs[1].target \in DOMAIN regs
        /\ regs[reqs[1].target].user # reqs[1].user)
       => reqs[1].code = 403 /\ reqs[1].body = <<>>
  /\ (reqs[1].op = "GetRegistration" /\ Role(reqs[1].user) = "admin"
        /\ reqs[1].target \in DOMAIN regs)
       => reqs[1].code = 200 /\ reqs[1].body = <<reqs[1].target>>
  /\ (reqs[1].op = "ListRegistrations" /\ Role(reqs[1].user) = "admin"
        /\ reqs[1].arg.status = NoStatus /\ reqs[1].arg.eventId = NoEvent
        /\ reqs[1].arg.page = 1 /\ reqs[1].arg.limit = 10)
       => BodyIds = DOMAIN regs

\* two users are registered; a user's unfiltered list returned that user's
\* registration and not the other's
C22_Witness ==
  /\ reqs[1].op = "ListRegistrations" /\ Role(reqs[1].user) # "admin"
  /\ Len(regs) = 2
  /\ Len(reqs[1].body) = 1
  /\ regs[reqs[1].body[1]].user = reqs[1].user
  /\ reqs[1].arg.status = NoStatus /\ reqs[1].arg.eventId = NoEvent

\* C23: a ChangeStatus or UpdatePayment of a user who is not an admin is
\* answered 403, whether or not the registration exists, and changes no
\* registration and no event
C23_AdminOnly ==
  [][((Answered("ChangeStatus") \/ Answered("UpdatePayment"))
        /\ Role(reqs'[1].user) # "admin")
     => /\ reqs'[1].code = 403
        /\ regs' = regs
        /\ events' = events]_vars

\* a user's ChangeStatus of the user's own registration to confirmed was
\* refused, and the registration is pending as before
C23_Witness ==
  /\ reqs[1].op = "ChangeStatus" /\ reqs[1].code = 403
  /\ reqs[1].arg = "confirmed"
  /\ reqs[1].target \in DOMAIN regs
  /\ regs[reqs[1].target].user = reqs[1].user
  /\ regs[reqs[1].target].registrationStatus = "pending"

---------------------------------------------------------------------------
(* Claims about error responses *)

\* the error kind of a response, by its message
ErrorKind(msg) ==
  CASE msg \in {"Event not found", "Registration not found"} -> "NotFound"
    [] msg \in {"Access denied", "Access denied. Admin privileges required."}
         -> "Forbidden"
    [] msg \in {MsgClosed, "Validation errors",
                "Event date must be in the future",
                "Registration deadline must be before event date",
                "Cancellation not allowed within 3 days of the event"}
         -> "Validation"
    [] msg \in {MsgDuplicate, MsgHasRegistrations} -> "Conflict"
    [] OTHER -> "none"

\* C24: two error responses of different kinds (NotFound, Forbidden,
\* Validation, Conflict) carry different statuses; stated of every two
\* responses that follow one another
C24_DistinctStatuses ==
  [][(/\ reqs[1].pc = "done" /\ reqs'[1].pc = "done"
      /\ ErrorKind(reqs[1].msg) # "none"
      /\ ErrorKind(reqs'[1].msg) # "none"
      /\ ErrorKind(reqs[1].msg) # ErrorKind(reqs'[1].msg))
     => reqs[1].code # reqs'[1].code]_vars

---------------------------------------------------------------------------
(* Claims about events *)

\* C25: every stored event has its registrationDeadline before its date
C25_DeadlineBeforeDate ==
  \A e \in DOMAIN events :
    events[e] # Null => events[e].registrationDeadline < events[e].date

\* C26: a registration is stored with the price its event has at that time
\* as paymentAmount, and no later step changes the paymentAmount of a stored
\* registration
C26_PaymentAmountIsSnapshot ==
  [][\A i \in DOMAIN regs' :
       IF i \in DOMAIN regs
       THEN regs'[i].paymentAmount = regs[i].paymentAmount
       ELSE /\ Stored(regs'[i].event)
            /\ regs'[i].paymentAmount = events[regs'[i].event].price]_vars

\* a registration made at price 1 is paid and cancelled, and the event now
\* costs 0: its paymentAmount is still 1
C26_Witness ==
  /\ Len(regs) >= 1
  /\ regs[1].paymentAmount = 1
  /\ regs[1].paymentStatus = "paid"
  /\ regs[1].registrationStatus = "cancelled"
  /\ Stored(regs[1].event)
  /\ events[regs[1].event].price = 0

\* C27: an admin's PUT /api/events/:id or PATCH /api/events/:id/status
\* leaves the currentParticipants of every event as it was
C27_EditsKeepCounter ==
  [][(Answered("UpdateEvent") \/ Answered("SetEventStatus"))
     => \A e \in DOMAIN events :
          Stored(e) =>
            /\ events'[e] # Null
            /\ events'[e].currentParticipants
                 = events[e].currentParticipants]_vars

\* C28: a read of a stored event by an admin returns the event whatever
\* its status; a read by anyone else is answered 404 exactly when the status
\* is not "active"
C28_EventVisibility ==
  (reqs[1].op = "GetEvent" /\ Stored(reqs[1].target))
    => IF reqs[1].user # NoUser /\ Role(reqs[1].user) = "admin"
       THEN reqs[1].code = 200 /\ reqs[1].body = <<reqs[1].target>>
       ELSE reqs[1].code = 404 <=> events[reqs[1].target].status # "active"

---------------------------------------------------------------------------
(* Claims about the gallery *)

\* the image a request in slot 1 is about was soft-deleted before the step
TargetInactive ==
  /\ reqs'[1].target \in DOMAIN gallery
  /\ ~gallery[reqs'[1].target].isActive

\* C29: the public list holds no soft-deleted image; a read or a like of a
\* soft-deleted image is answered 404 and leaves the gallery, its views and
\* likes included, as it was
C29_SoftDeletedUntouched ==
  [][/\ Answered("ListImages")
          => \A k \in DOMAIN reqs'[1].body : gallery[reqs'[1].body[k]].isActive
     /\ (Answered("GetImage") /\ TargetInactive)
          => reqs'[1].code = 404 /\ gallery' = gallery
     /\ (Answered("LikeImage") /\ TargetInactive)
          => reqs'[1].code = 404 /\ gallery' = gallery]_vars


---------------------------------------------------------------------------
(* Claims about the client session *)

\* C30: in the AuthProvider, once loading has finished token and user are
\* both set or both null (after mount, also when the stored user cookie fails
\* to parse; after a login or register that succeeded or failed; after
\* logout), and isLoading is false once the mount and every call have
\* completed.
C30_SessionWhole ==
  auth.mounted =>
    /\ ~auth.isLoading => ((auth.token = Null) <=> (auth.user = Null))
    /\ auth.calls = {} => ~auth.isLoading

====